---- MODULE Spec2Model ----
(***************************************************************************)
(* GoLinks: the link service (internal/service/link.go), the shortcut and  *)
(* query repositories and the redirect handler, as a state machine.        *)
(* Strings are sequences of one-character strings, so that trimming,       *)
(* splitting, escaping and substitution are computed character by          *)
(* character as the Go code computes them.                                  *)
(***************************************************************************)
EXTENDS Integers, Sequences, FiniteSets, TLC

VARIABLES linktable, queries, call, upd, view, subst, now, resp, moved, cfg

vars == <<linktable, queries, call, upd, view, subst, now, resp, moved, cfg>>

(***************************************************************************)
(* Bounds of the model.                                                    *)
(***************************************************************************)
MaxRows == 2
MaxQueries == 2
MaxLookups == 4
MaxRecords == 3
MaxDays == 3

(***************************************************************************)
(* String helpers: the parts of Go's strings and net/url packages that     *)
(* the service calls.                                                       *)
(***************************************************************************)
StrEmpty == <<>>

IsSpace(c) == c \in {" ", "\t"}

RECURSIVE TrimLeftSpace(_)
TrimLeftSpace(s) ==
  IF s = <<>> THEN <<>>
  ELSE IF IsSpace(Head(s)) THEN TrimLeftSpace(Tail(s)) ELSE s

RECURSIVE TrimRightSpace(_)
TrimRightSpace(s) ==
  IF s = <<>> THEN <<>>
  ELSE IF IsSpace(s[Len(s)]) THEN TrimRightSpace(SubSeq(s, 1, Len(s) - 1)) ELSE s

TrimSpace(s) == TrimRightSpace(TrimLeftSpace(s))

HasPrefix(s, p) == Len(s) >= Len(p) /\ SubSeq(s, 1, Len(p)) = p

HasSuffix(s, p) == Len(s) >= Len(p) /\ SubSeq(s, Len(s) - Len(p) + 1, Len(s)) = p

TrimSuffix(s, suffix) ==
  IF HasSuffix(s, suffix) THEN SubSeq(s, 1, Len(s) - Len(suffix)) ELSE s

Contains(s, sub) ==
  \E i \in 1..(Len(s) - Len(sub) + 1) : SubSeq(s, i, i + Len(sub) - 1) = sub

\* strings.Fields: the maximal runs of non-space characters, in order.
RECURSIVE FieldsAcc(_, _, _)
FieldsAcc(s, cur, acc) ==
  IF s = <<>> THEN (IF cur = <<>> THEN acc ELSE Append(acc, cur))
  ELSE IF IsSpace(Head(s))
       THEN FieldsAcc(Tail(s), <<>>, IF cur = <<>> THEN acc ELSE Append(acc, cur))
       ELSE FieldsAcc(Tail(s), Append(cur, Head(s)), acc)

Fields(s) == FieldsAcc(s, <<>>, <<>>)

RECURSIVE Join(_, _)
Join(elems, sep) ==
  IF elems = <<>> THEN <<>>
  ELSE IF Len(elems) = 1 THEN elems[1]
  ELSE elems[1] \o sep \o Join(Tail(elems), sep)

\* strings.ReplaceAll with a non-empty old: non-overlapping, left to right.
RECURSIVE ReplaceAll(_, _, _)
ReplaceAll(s, old, new) ==
  IF s = <<>> THEN <<>>
  ELSE IF HasPrefix(s, old)
       THEN new \o ReplaceAll(SubSeq(s, Len(old) + 1, Len(s)), old, new)
       ELSE <<Head(s)>> \o ReplaceAll(Tail(s), old, new)

\* url.QueryEscape: a space becomes "+", a reserved byte becomes %XX, the
\* unreserved ones (letters, digits, - _ . ~) stay.
EscapeTable ==
  [c \in {"\t", "/", ":", "{", "}", "*", "+", "%", "?", "="} |->
     CASE c = "\t" -> <<"%", "0", "9">>
       [] c = "/"  -> <<"%", "2", "F">>
       [] c = ":"  -> <<"%", "3", "A">>
       [] c = "{"  -> <<"%", "7", "B">>
       [] c = "}"  -> <<"%", "7", "D">>
       [] c = "*"  -> <<"%", "2", "A">>
       [] c = "+"  -> <<"%", "2", "B">>
       [] c = "%"  -> <<"%", "2", "5">>
       [] c = "?"  -> <<"%", "3", "F">>
       [] c = "="  -> <<"%", "3", "D">>]

RECURSIVE QueryEscape(_)
QueryEscape(s) ==
  IF s = <<>> THEN <<>>
  ELSE (IF Head(s) = " " THEN <<"+">>
        ELSE IF Head(s) \in DOMAIN EscapeTable THEN EscapeTable[Head(s)]
        ELSE <<Head(s)>>) \o QueryEscape(Tail(s))

(***************************************************************************)
(* String constants of the model.                                          *)
(***************************************************************************)
Space == <<" ">>
Wildcard == <<"{", "*", "}">>
SchemeHttp == <<"h", "t", "t", "p", ":", "/", "/">>
SchemeHttps == <<"h", "t", "t", "p", "s", ":", "/", "/">>

\* The strings the requests of the model are drawn from.
StrA == <<"a">>
StrD == <<"d">>
StrSpaceA == <<" ", "a">>
StrASlash == <<"a", "/">>
StrAB == <<"a", " ", "b">>
UrlX == SchemeHttp \o <<"x">>
UrlXSpace == SchemeHttp \o <<"x", " ">>
UrlWild == SchemeHttps \o <<"x", "/">> \o Wildcard
SpaceUrlX == Space \o UrlX
QueryAG == <<"a", " ", "g">>
QueryABG == <<"a", " ", "b", " ", "g">>
QueryATabG == <<"a", "\t", "g">>
QueryAWild == <<"a", " ">> \o Wildcard
QueryDG == <<"d", " ", "g">>
TermT == <<"t">>

UrlTwoWild == SchemeHttps \o <<"x", "/">> \o Wildcard \o <<"/">> \o Wildcard
UrlNested == SchemeHttps \o <<"x", "/", "{">> \o Wildcard \o <<"*", "}">>
UrlBrace == SchemeHttps \o <<"x", "/", "{">>
UrlWildQ == SchemeHttps \o <<"x", "/", "?", "q", "=">> \o Wildcard
TermSpaceT == <<" ", "t">>
TermWild == Wildcard
TermTWild == <<"t">> \o Wildcard
TermSlash == <<"a", "/", "b">>
TermStar == <<"*">>

DefaultUser == "DefaultUser"

\* The redirect handler's strings: config.BaseURL (its default value) and
\* the path of the homepage with the missing query.
Slash == <<"/">>
BaseURL == SchemeHttp \o <<"l", "o", "c", "a", "l", "h", "o", "s", "t", ":", "8", "0", "8", "0">>
HomepageMissing ==
  <<"/", "h", "o", "m", "e", "p", "a", "g", "e", "/", "?", "m", "i", "s", "s", "i", "n", "g", "=">>
StrADoubleSlash == <<"a", "/", "/">>
StrDSlash == <<"d", "/">>

\* UpdateLink requests: every rule of the validation can be broken, alone
\* and together with later ones.
Words == {StrEmpty, Space, StrA, StrSpaceA, StrASlash, StrAB, UrlX}
Links == {StrEmpty, StrA, StrASlash, UrlX, UrlXSpace, UrlWild, SpaceUrlX}
Users == {DefaultUser}

\* The UpdateLink requests made while lookups run.
ServedWords == {StrEmpty, StrA, StrSpaceA}
ServedLinks == {UrlX, UrlWild}

\* GetLink requests.
Queries == {StrEmpty, StrA, StrSpaceA, StrD, QueryAG, QueryABG, QueryATabG, QueryAWild, QueryDG}
SearchTerms == {StrEmpty, TermT}
StoreQueries == {QueryAG}

\* Requests that overlap: keywords that are word-prefixes of the queries.
RaceWords == {StrA, StrAB}
RaceLinks == {UrlX, UrlWild}
RaceQueries == {QueryAG, QueryABG}

\* processResultLink: links with no, one, two and nested {*}, search terms
\* with spaces, reserved bytes and {*}.
SubstLinks == {UrlX, UrlXSpace, UrlWild, UrlTwoWild, UrlNested, UrlBrace, UrlWildQ}
SubstTerms == {StrEmpty, TermT, QueryAG, TermSpaceT, TermWild, TermTWild, TermSlash, TermStar}

\* Rows for the listing: a keyword whose newest mapping is a keyword
\* reference and whose older one is a URL, and keywords with URLs.
ListRows == {<<StrA, UrlX>>, <<StrA, UrlWild>>, <<StrD, UrlX>>, <<StrD, StrA>>, <<StrAB, UrlX>>}

\* Rows written through ShortcutRepository.Create without the service's
\* validation (keyword references, as the service's tests seed them).
SeedRows == {<<StrA, UrlX>>, <<StrA, UrlWild>>, <<StrAB, UrlX>>, <<StrD, StrA>>}

\* Values of PORT: every string of up to three of these characters, and
\* the port numbers and the word of the configuration's tests.
PortChars == {"0", "1", "7", "-", "x"}
PortValues ==
  UNION {[1..n -> PortChars] : n \in 0..3}
    \cup {<<"8", "0", "8", "0">>, <<"3", "0", "0", "0">>, <<"9", "0", "9", "0">>,
          <<"6", "5", "5", "3", "5">>, <<"6", "5", "5", "3", "6">>,
          <<"i", "n", "v", "a", "l", "i", "d">>, <<"+", "8", "0">>}

\* The arguments of moveLastWord: no word, one, two and three words, white
\* space of every kind around and between them.
MoveFroms == {StrEmpty, Space, StrA, StrSpaceA, StrAB, QueryAG, QueryABG, QueryATabG, QueryAWild}
MoveTos == {StrEmpty, TermT, TermSpaceT, QueryAG}

\* Keywords that refer to each other, and a URL for one of them.
AliasRows == {<<StrA, StrD>>, <<StrD, StrA>>, <<StrA, UrlX>>}
AliasQueries == {StrA, StrD, QueryAG}

\* The paths of the redirect handler's requests.
Paths == {StrEmpty, Slash, StrA, StrASlash, StrADoubleSlash, StrDSlash, QueryAG}

\* The query repository's callers: two keywords, identifiers with and
\* without a row (999 as in the repository's test), windows and limits
\* around the ones the service asks for.
PopularRows == {<<StrA, UrlX>>, <<StrD, UrlWild>>}
WordIDs == (1..MaxRows) \cup {999}
TimeWindows == {0, 1, 3}
ResultLimits == {1, 20}

(***************************************************************************)
(* Errors.                                                                 *)
(***************************************************************************)
NoError == "nil"
MsgNoWord == "No word given, cannot setup a golink"
MsgTrailingSlash == "Words ending in a '/' are not supported"
MsgNoLink == "No link given, cannot setup a golink"
MsgSelfReference == "Word points to itself, will cause a recursive lookup"
MsgNotURL == "URL must start with http:// or https://"
ErrCreateFailed == "failed to create shortcut"
ErrGetFailed == "failed to get shortcut"
ErrLogFailed == "failed to create query log"
ErrKeywordsFailed == "failed to get all keywords"
ErrRecentFailed == "failed to get recent queries"
InvalidQueryError == "InvalidQueryError"

(***************************************************************************)
(* internal/repository: linktable and queries.                             *)
(***************************************************************************)
NoRow == [id |-> 0, word |-> <<>>, link |-> <<>>, user |-> ""]

\* SELECT ... WHERE word = ? ORDER BY id DESC LIMIT 1; rows are kept in id order.
RECURSIVE ScanDesc(_, _, _)
ScanDesc(table, word, i) ==
  IF i = 0 THEN NoRow
  ELSE IF table[i].word = word THEN table[i]
  ELSE ScanDesc(table, word, i - 1)

\* Faulty variant: ORDER BY id ASC, the oldest row of the keyword.
RECURSIVE ScanAsc(_, _, _)
ScanAsc(table, word, i) ==
  IF i > Len(table) THEN NoRow
  ELSE IF table[i].word = word THEN table[i]
  ELSE ScanAsc(table, word, i + 1)

GetByWordOldest(table, word) == ScanAsc(table, word, 1)

GetByWord(table, word) == ScanDesc(table, word, Len(table))

\* Faulty variant: an UPDATE of the keyword's newest row where there is one.
ShortcutCreateReplace(table, word, link, user) ==
  IF \E i \in 1..Len(table) : table[i].word = word
  THEN [i \in 1..Len(table) |->
          IF table[i].word = word /\ \A j \in (i + 1)..Len(table) : table[j].word # word
          THEN [table[i] EXCEPT !.link = link, !.user = user]
          ELSE table[i]]
  ELSE Append(table, [id |-> Len(table) + 1, word |-> word, link |-> link, user |-> user])

\* INSERT INTO linktable: AUTOINCREMENT gives the next identifier.
ShortcutCreate(table, word, link, user) ==
  Append(table, [id |-> Len(table) + 1, word |-> word, link |-> link, user |-> user])

\* FOREIGN KEY (word_id) REFERENCES linktable(id), enforced by the
\* connection (_foreign_keys=on).
ForeignKeyHolds(table, wordID) == \E i \in 1..Len(table) : table[i].id = wordID

\* Faulty variant: the constraint is not enforced.
QueryCreateUnchecked(log, table, wordID, at) ==
  Append(log, [query_id |-> Len(log) + 1, word_id |-> wordID, created_at |-> at])

\* INSERT INTO queries (word_id, created_at) VALUES (?, CURRENT_TIMESTAMP):
\* the log after the statement, unchanged when the constraint rejects it.
\* Time is counted in days.
QueryCreate(log, table, wordID, at) ==
  IF ForeignKeyHolds(table, wordID)
  THEN Append(log, [query_id |-> Len(log) + 1, word_id |-> wordID, created_at |-> at])
  ELSE log

\* SELECT word, link, MAX(id) FROM linktable GROUP BY word ORDER BY max_id
\* DESC: one row for each word, taken from the word's newest row.
RECURSIVE KeywordGroups(_, _)
KeywordGroups(table, i) ==
  IF i = 0 THEN <<>>
  ELSE IF \E j \in (i + 1)..Len(table) : table[j].word = table[i].word
  THEN KeywordGroups(table, i - 1)
  ELSE <<[word |-> table[i].word, link |-> table[i].link]>> \o KeywordGroups(table, i - 1)

\* Faulty variant: ORDER BY max_id ASC.
RECURSIVE KeywordGroupsAsc(_, _)
KeywordGroupsAsc(table, i) ==
  IF i = 0 THEN <<>>
  ELSE IF \E j \in (i + 1)..Len(table) : table[j].word = table[i].word
  THEN KeywordGroupsAsc(table, i - 1)
  ELSE KeywordGroupsAsc(table, i - 1) \o <<[word |-> table[i].word, link |-> table[i].link]>>

RepositoryGetAllKeywordsAsc(table) == KeywordGroupsAsc(table, Len(table))

RepositoryGetAllKeywords(table) == KeywordGroups(table, Len(table))

\* Faulty variant: the WHERE clause is missing.
InWindowAlways(record, at, timeWindowDays) == TRUE

\* WHERE q.created_at > datetime('now', '-N days').
InWindow(record, at, timeWindowDays) == record.created_at > at - timeWindowDays

\* SELECT COUNT(q.word_id), s.word, s.link FROM queries q JOIN linktable s
\* ON q.word_id = s.id WHERE ... GROUP BY q.word_id: the rows before
\* ordering.
PopularRow(log, table, id, at, timeWindowDays) ==
  [count |-> Cardinality({k \in 1..Len(log) :
                            log[k].word_id = id /\ InWindow(log[k], at, timeWindowDays)}),
   word |-> table[id].word, link |-> table[id].link]

PopularIds(log, table, at, timeWindowDays) ==
  {id \in 1..Len(table) :
     \E k \in 1..Len(log) : log[k].word_id = id /\ InWindow(log[k], at, timeWindowDays)}

\* ORDER BY count DESC LIMIT numResults: SQL leaves the order of rows with
\* equal counts open, so the result is any of the orders it allows.
RepositoryGetRecentQueries(log, table, at, timeWindowDays, numResults) ==
  LET ids == PopularIds(log, table, at, timeWindowDays)
      n == Cardinality(ids)
      orders == {o \in [1..n -> ids] :
                   /\ \A a, b \in 1..n : a # b => o[a] # o[b]
                   /\ \A a \in 1..(n - 1) :
                        PopularRow(log, table, o[a], at, timeWindowDays).count
                          >= PopularRow(log, table, o[a + 1], at, timeWindowDays).count}
      m == IF n < numResults THEN n ELSE numResults
  IN {[a \in 1..m |-> PopularRow(log, table, o[a], at, timeWindowDays)] : o \in orders}

(***************************************************************************)
(* internal/service: the pure helpers.                                     *)
(***************************************************************************)
isURL(link) == HasPrefix(link, SchemeHttp) \/ HasPrefix(link, SchemeHttps)

processResultLink(link, searchTerm) ==
  LET stripped == ReplaceAll(searchTerm, Wildcard, <<>>)
      escaped == QueryEscape(TrimSpace(stripped))
  IN TrimSpace(ReplaceAll(link, Wildcard, escaped))

\* Faulty variant: the word is put behind the words of moveTo.
moveLastWordAppends(moveFrom, moveTo) ==
  LET moveFromWords == Fields(moveFrom)
      n == Len(moveFromWords)
  IN IF n = 0 THEN <<moveFrom, moveTo>>
     ELSE <<Join(SubSeq(moveFromWords, 1, n - 1), Space),
            Join(Fields(moveTo) \o <<moveFromWords[n]>>, Space)>>

moveLastWord(moveFrom, moveTo) ==
  LET moveFromWords == Fields(moveFrom)
      n == Len(moveFromWords)
  IN IF n = 0 THEN <<moveFrom, moveTo>>
     ELSE <<Join(SubSeq(moveFromWords, 1, n - 1), Space),
            Join(<<moveFromWords[n]>> \o Fields(moveTo), Space)>>

\* Faulty variant: the empty-word rule is missing.
validateLinkRequestNoWordRule(reqWord, reqLink) ==
  LET word == TrimSpace(reqWord)
      link == TrimSpace(reqLink)
  IN IF HasSuffix(word, <<"/">>) THEN MsgTrailingSlash
     ELSE IF link = <<>> THEN MsgNoLink
     ELSE IF link = word THEN MsgSelfReference
     ELSE NoError

\* Faulty variant: the link is examined before the trailing slash.
validateLinkRequestLinkFirst(reqWord, reqLink) ==
  LET word == TrimSpace(reqWord)
      link == TrimSpace(reqLink)
  IN IF word = <<>> THEN MsgNoWord
     ELSE IF link = <<>> THEN MsgNoLink
     ELSE IF HasSuffix(word, <<"/">>) THEN MsgTrailingSlash
     ELSE IF link = word THEN MsgSelfReference
     ELSE NoError

\* Faulty variant: the trailing-slash rule is missing.
validateLinkRequestNoSlashRule(reqWord, reqLink) ==
  LET word == TrimSpace(reqWord)
      link == TrimSpace(reqLink)
  IN IF word = <<>> THEN MsgNoWord
     ELSE IF link = <<>> THEN MsgNoLink
     ELSE IF link = word THEN MsgSelfReference
     ELSE NoError

\* validateLinkRequest works on trimmed copies of the two fields.
validateLinkRequest(reqWord, reqLink) ==
  LET word == TrimSpace(reqWord)
      link == TrimSpace(reqLink)
  IN IF word = <<>> THEN MsgNoWord
     ELSE IF HasSuffix(word, <<"/">>) THEN MsgTrailingSlash
     ELSE IF link = <<>> THEN MsgNoLink
     ELSE IF link = word THEN MsgSelfReference
     ELSE NoError

\* Faulty variant: keyword references are let through.
UpdateLinkCheckNoURLRule(reqWord, reqLink) == validateLinkRequest(reqWord, reqLink)

\* What UpdateLink decides before it touches the repository: the request
\* itself (untrimmed) is what isURL sees and what is stored.
UpdateLinkCheck(reqWord, reqLink) ==
  IF validateLinkRequest(reqWord, reqLink) # NoError
  THEN validateLinkRequest(reqWord, reqLink)
  ELSE IF ~isURL(reqLink) THEN MsgNotURL
  ELSE NoError

(***************************************************************************)
(* LinkService.GetLink.  The function calls itself in tail position, so    *)
(* one invocation is one step of the call in flight: trim, one lookup,     *)
(* and on a hit one record attempt, then return or recurse.                 *)
(***************************************************************************)
IdleCall ==
  [pc |-> "idle", query |-> <<>>, term |-> <<>>, word |-> <<>>, searchTerm |-> <<>>,
   result |-> <<>>, err |-> NoError, msg |-> <<>>, hits |-> <<>>,
   logFailed |-> FALSE, lookups |-> 0, rows |-> 0, records |-> 0]

\* Faulty variant: a failed lookup is taken for a keyword that is not there.
LookupFailedAsMiss(c) == [c EXCEPT !.pc = "done", !.err = InvalidQueryError]

\* The lookup failed in the repository: a wrapped error, no destination.
LookupFailed(c) == [c EXCEPT !.pc = "done", !.err = ErrGetFailed]

\* No shortcut and a space in the word: move the last word over and retry.
SplitRetry(c, word) ==
  [c EXCEPT !.word = moveLastWord(word, c.searchTerm)[1],
            !.searchTerm = moveLastWord(word, c.searchTerm)[2]]

\* No shortcut and nothing to split.
QueryNotFound(c, word) ==
  [c EXCEPT !.pc = "done", !.err = InvalidQueryError,
            !.msg = Join(<<word, c.searchTerm>>, Space)]

\* Faulty variant: the error of queryRepo.Create is returned.
LogQueryFatal(c, shortcut, logOK) ==
  [c EXCEPT !.hits = IF Len(c.hits) < MaxLookups THEN Append(c.hits, shortcut.id) ELSE c.hits,
            !.logFailed = c.logFailed \/ ~logOK,
            !.err = IF logOK THEN c.err ELSE ErrLogFailed]

\* Faulty variant: only the mapping that ends the resolution is recorded.
LogQueryURLOnly(c, shortcut, logOK) ==
  IF isURL(shortcut.link)
  THEN [c EXCEPT !.hits = IF Len(c.hits) < MaxLookups THEN Append(c.hits, shortcut.id)
                          ELSE c.hits,
                 !.logFailed = c.logFailed \/ ~logOK]
  ELSE c

\* queryRepo.Create was called for the shortcut; its error is logged only.
LogQuery(c, shortcut, logOK) ==
  [c EXCEPT !.hits = IF Len(c.hits) < MaxLookups THEN Append(c.hits, shortcut.id) ELSE c.hits,
            !.logFailed = c.logFailed \/ ~logOK]

\* Faulty variant: a mapping found for the second time ends the call.
KeywordReferenceGuarded(c, shortcut) ==
  IF \E p, q \in 1..Len(c.hits) : p < q /\ c.hits[p] = shortcut.id /\ c.hits[q] = shortcut.id
  THEN [c EXCEPT !.pc = "done", !.err = InvalidQueryError]
  ELSE [c EXCEPT !.word = shortcut.link]

\* Faulty variant: the recursion starts over with an empty search term.
KeywordReferenceDropsTerm(c, shortcut) ==
  [c EXCEPT !.word = shortcut.link, !.searchTerm = <<>>]

\* The link is a keyword reference: recurse on it with the same search term.
KeywordReference(c, shortcut) == [c EXCEPT !.word = shortcut.link]

\* The link is a URL: substitute and return.
ReturnLink(c, shortcut) ==
  [c EXCEPT !.pc = "done", !.result = processResultLink(shortcut.link, c.searchTerm)]

\* The invocation on call c over the table, the lookup and the record
\* attempt succeeding or failing as lookupOK and logOK say.
GetLinkInvocation(c, table, lookupOK, logOK) ==
  LET word == TrimSpace(c.word)
      shortcut == GetByWord(table, word)
      at == [c EXCEPT !.word = word,
                      !.lookups = IF c.lookups < MaxLookups THEN c.lookups + 1 ELSE c.lookups]
  IN IF ~lookupOK THEN LookupFailed(at)
     ELSE IF shortcut = NoRow
     THEN IF Contains(word, Space) THEN SplitRetry(at, word) ELSE QueryNotFound(at, word)
     ELSE IF ~isURL(shortcut.link)
     THEN KeywordReference(LogQuery(at, shortcut, logOK), shortcut)
     ELSE ReturnLink(LogQuery(at, shortcut, logOK), shortcut)

\* Faulty variant: a keyword reference is followed without a record.
GetLinkHitURLOnly(c, table, lookupOK) ==
  IF lookupOK /\ isURL(GetByWord(table, TrimSpace(c.word)).link)
  THEN GetByWord(table, TrimSpace(c.word))
  ELSE NoRow

\* The row the invocation hands to queryRepo.Create, NoRow when it does not
\* get that far.
GetLinkHit(c, table, lookupOK) ==
  IF lookupOK THEN GetByWord(table, TrimSpace(c.word)) ELSE NoRow

\* Faulty variant: the filter is missing.
GetAllKeywordsUnfiltered(table) == RepositoryGetAllKeywords(table)

\* LinkService.GetAllKeywords: the repository's rows that hold a URL.
GetAllKeywords(table) ==
  LET keywords == RepositoryGetAllKeywords(table)
      Keep(keyword) == isURL(keyword.link)
  IN SelectSeq(keywords, Keep)

\* LinkService.GetRecentQueries asks for the last 3 days and at most 20 rows.
TimeWindowDays == 3

NumResults == 20

GetRecentQueries(log, table, at) ==
  RepositoryGetRecentQueries(log, table, at, TimeWindowDays, NumResults)

(***************************************************************************)
(* internal/config: Load and getEnvAsInt.                                  *)
(***************************************************************************)
DefaultPort == 8080

Digits == <<"0", "1", "2", "3", "4", "5", "6", "7", "8", "9">>

IsDigit(c) == \E d \in 1..10 : Digits[d] = c

DigitValue(c) == (CHOOSE d \in 1..10 : Digits[d] = c) - 1

RECURSIVE ParseDigits(_, _)
ParseDigits(s, acc) ==
  IF s = <<>> THEN acc ELSE ParseDigits(Tail(s), acc * 10 + DigitValue(Head(s)))

\* strconv.Atoi: an optional sign and one or more decimal digits.  The
\* values of the model are far from the ends of a 64-bit int.
Atoi(s) ==
  LET signed == s # <<>> /\ s[1] \in {"+", "-"}
      digits == IF signed THEN Tail(s) ELSE s
  IN IF digits = <<>> \/ \E k \in 1..Len(digits) : ~IsDigit(digits[k])
     THEN [ok |-> FALSE, value |-> 0]
     ELSE [ok |-> TRUE,
           value |-> IF s[1] = "-" THEN 0 - ParseDigits(digits, 0) ELSE ParseDigits(digits, 0)]

\* getEnvAsInt: the fallback for an empty or unparsable value, and the
\* parsed number otherwise.
getEnvAsInt(value, fallback) ==
  IF value # <<>> /\ Atoi(value).ok THEN Atoi(value).value ELSE fallback

(***************************************************************************)
(* internal/handlers: RedirectHandler.                                     *)
(***************************************************************************)
StatusFound == 302
StatusInternalServerError == 500

\* Faulty variant: every error redirects to the homepage.
RedirectResponseNeverFails(c, queryPath) ==
  IF c.err = NoError
  THEN [status |-> StatusFound, location |-> c.result]
  ELSE [status |-> StatusFound, location |-> BaseURL \o HomepageMissing \o queryPath]

\* What the handler writes once GetLink(queryPath, "") has returned as the
\* finished call c says.
RedirectResponse(c, queryPath) ==
  IF c.err = NoError
  THEN [status |-> StatusFound, location |-> c.result]
  ELSE IF c.err = InvalidQueryError
  THEN [status |-> StatusFound, location |-> BaseURL \o HomepageMissing \o queryPath]
  ELSE [status |-> StatusInternalServerError, location |-> <<>>]

(***************************************************************************)
(* The state machine.                                                      *)
(***************************************************************************)
IdleUpdate == [word |-> <<>>, link |-> <<>>, user |-> "", err |-> NoError, stored |-> FALSE]

\* What the last call of a listing or of the query repository was given and
\* returned, and how many rows the table had when it ran.
NoView == [op |-> "none", args |-> <<>>, rows |-> <<>>, err |-> NoError, seen |-> 0]

\* The redirect handler's request in flight and its response.
NoResponse == [pc |-> "idle", path |-> <<>>, status |-> 0, location |-> <<>>]

\* moveLastWord applied over and over to its own results, as the retries of
\* GetLink apply it: the first arguments, the current ones, the applications.
NoMove == [pc |-> "idle", from |-> <<>>, to |-> <<>>, moveFrom |-> <<>>, moveTo |-> <<>>,
           applied |-> 0]

\* config.Load: the value of PORT in the environment (empty when it is not
\* set) and the port of the configuration returned.
NoLoad == [pc |-> "idle", env |-> <<>>, Port |-> 0]

\* processResultLink as a call of its own: its arguments and its result.
NoSubst == [pc |-> "idle", link |-> <<>>, searchTerm |-> <<>>, result |-> <<>>]

Init ==
  /\ linktable = <<>>
  /\ queries = <<>>
  /\ call = IdleCall
  /\ upd = IdleUpdate
  /\ view = NoView
  /\ subst = NoSubst
  /\ now = 0
  /\ resp = NoResponse
  /\ moved = NoMove
  /\ cfg = NoLoad

\* Faulty variant: the INSERT comes before the URL test.
UpdateLinkStoresFirst(reqWord, reqLink, userID, createOK) ==
  LET check == UpdateLinkCheck(reqWord, reqLink)
      valid == validateLinkRequest(reqWord, reqLink) = NoError
  IN /\ upd' = [word |-> reqWord, link |-> reqLink, user |-> userID,
                err |-> IF check # NoError THEN check
                        ELSE IF createOK THEN NoError ELSE ErrCreateFailed,
                stored |-> check = NoError /\ createOK]
     /\ linktable' = IF valid /\ createOK
                     THEN ShortcutCreate(linktable, reqWord, reqLink, userID)
                     ELSE linktable
     /\ UNCHANGED <<queries, call, view, subst, now, resp, moved, cfg>>

\* LinkService.UpdateLink: validate, then one INSERT; the INSERT may fail,
\* and does once the table of the model is full.
UpdateLink(reqWord, reqLink, userID, createOK) ==
  LET check == UpdateLinkCheck(reqWord, reqLink)
  IN /\ upd' = [word |-> reqWord, link |-> reqLink, user |-> userID,
                err |-> IF check # NoError THEN check
                        ELSE IF createOK THEN NoError ELSE ErrCreateFailed,
                stored |-> check = NoError /\ createOK]
     /\ linktable' = IF check = NoError /\ createOK
                     THEN ShortcutCreate(linktable, reqWord, reqLink, userID)
                     ELSE linktable
     /\ UNCHANGED <<queries, call, view, subst, now, resp, moved, cfg>>

CreateOutcomes == IF Len(linktable) < MaxRows THEN BOOLEAN ELSE {FALSE}

UpdateLinkRequest ==
  \E reqWord \in Words, reqLink \in Links, userID \in Users, createOK \in CreateOutcomes :
    UpdateLink(reqWord, reqLink, userID, createOK)

UpdateLinkServed ==
  \E reqWord \in ServedWords, reqLink \in ServedLinks, userID \in Users,
     createOK \in CreateOutcomes :
    UpdateLink(reqWord, reqLink, userID, createOK)

\* A caller enters GetLink(word, searchTerm).
GetLinkCall(word, searchTerm) ==
  /\ call.pc # "running"
  /\ call' = [IdleCall EXCEPT !.pc = "running", !.query = word, !.term = searchTerm,
                              !.word = word, !.searchTerm = searchTerm,
                              !.rows = Len(linktable), !.records = Len(queries)]
  /\ UNCHANGED <<linktable, queries, upd, view, subst, now, resp, moved, cfg>>

GetLinkRequest == \E word \in Queries, searchTerm \in SearchTerms : GetLinkCall(word, searchTerm)

\* One invocation of the call in flight.
GetLinkStep(lookupOK, logOK) ==
  /\ call.pc = "running"
  /\ call' = GetLinkInvocation(call, linktable, lookupOK, logOK)
  /\ queries' = IF GetLinkHit(call, linktable, lookupOK) # NoRow /\ logOK
                THEN QueryCreate(queries, linktable, GetLinkHit(call, linktable, lookupOK).id, now)
                ELSE queries
  /\ UNCHANGED <<linktable, upd, view, subst, now, resp, moved, cfg>>

LogOutcomes == IF Len(queries) < MaxQueries THEN BOOLEAN ELSE {FALSE}

GetLinkRun == \E lookupOK \in BOOLEAN, logOK \in LogOutcomes : GetLinkStep(lookupOK, logOK)

\* A row written straight through ShortcutRepository.Create.
RepositoryCreate ==
  \E row \in SeedRows :
    /\ Len(linktable) < MaxRows
    /\ linktable' = ShortcutCreate(linktable, row[1], row[2], DefaultUser)
    /\ UNCHANGED <<queries, call, upd, view, subst, now, resp, moved, cfg>>

RepositoryCreateListed ==
  \E row \in ListRows :
    /\ Len(linktable) < MaxRows
    /\ linktable' = ShortcutCreate(linktable, row[1], row[2], DefaultUser)
    /\ UNCHANGED <<queries, call, upd, view, subst, now, resp, moved, cfg>>

\* LinkService.GetAllKeywords: a SELECT, which may fail.
GetAllKeywordsCall ==
  \E selectOK \in BOOLEAN :
    /\ view' = IF selectOK
               THEN [op |-> "keywords", args |-> <<>>, rows |-> GetAllKeywords(linktable),
                     err |-> NoError, seen |-> Len(linktable)]
               ELSE [op |-> "keywords", args |-> <<>>, rows |-> <<>>,
                     err |-> ErrKeywordsFailed, seen |-> Len(linktable)]
    /\ UNCHANGED <<linktable, queries, call, upd, subst, now, resp, moved, cfg>>

\* LinkService.GetRecentQueries: a SELECT, which may fail.
GetRecentQueriesCall ==
  \/ \E rows \in GetRecentQueries(queries, linktable, now) :
       /\ view' = [op |-> "recent", args |-> <<TimeWindowDays, NumResults>>, rows |-> rows,
                   err |-> NoError, seen |-> Len(linktable)]
       /\ UNCHANGED <<linktable, queries, call, upd, subst, now, resp, moved, cfg>>
  \/ /\ view' = [op |-> "recent", args |-> <<TimeWindowDays, NumResults>>, rows |-> <<>>,
                 err |-> ErrRecentFailed, seen |-> Len(linktable)]
     /\ UNCHANGED <<linktable, queries, call, upd, subst, now, resp, moved, cfg>>

\* RedirectHandler takes a request: it drops one trailing slash of the path
\* and enters GetLink with an empty search term.
RedirectRequest ==
  \E path \in Paths :
    /\ resp.pc # "waiting"
    /\ call.pc # "running"
    /\ resp' = [pc |-> "waiting", path |-> path, status |-> 0, location |-> <<>>]
    /\ call' = [IdleCall EXCEPT !.pc = "running", !.query = TrimSuffix(path, Slash),
                                !.term = StrEmpty, !.word = TrimSuffix(path, Slash),
                                !.searchTerm = StrEmpty, !.rows = Len(linktable),
                                !.records = Len(queries)]
    /\ UNCHANGED <<linktable, queries, upd, view, subst, now, moved, cfg>>

\* GetLink has returned to the handler, which writes its response.
RedirectRespond ==
  /\ resp.pc = "waiting"
  /\ call.pc = "done"
  /\ resp' = [resp EXCEPT !.pc = "responded",
                          !.status = RedirectResponse(call, TrimSuffix(resp.path, Slash)).status,
                          !.location =
                            RedirectResponse(call, TrimSuffix(resp.path, Slash)).location]
  /\ UNCHANGED <<linktable, queries, call, upd, view, subst, now, moved, cfg>>

\* The clock of the database moves on by a day.
Tick ==
  /\ now < MaxDays
  /\ now' = now + 1
  /\ UNCHANGED <<linktable, queries, call, upd, view, subst, resp, moved, cfg>>

\* A keyword that is not in the table yet is created.
RepositoryCreatePopular ==
  \E row \in PopularRows :
    /\ Len(linktable) < MaxRows
    /\ \A i \in 1..Len(linktable) : linktable[i].word # row[1]
    /\ linktable' = ShortcutCreate(linktable, row[1], row[2], DefaultUser)
    /\ UNCHANGED <<queries, call, upd, view, subst, now, resp, moved, cfg>>

\* QueryRepository.Create called with any identifier: the INSERT may fail,
\* and does when the identifier has no row or the log of the model is full.
QueryRepositoryCreate ==
  \E wordID \in WordIDs, insertOK \in BOOLEAN :
    LET stored == insertOK /\ Len(queries) < MaxRecords
        log == IF stored THEN QueryCreate(queries, linktable, wordID, now) ELSE queries
    IN /\ queries' = log
       /\ view' = [op |-> "record", args |-> <<wordID>>, rows |-> <<>>,
                   err |-> IF log # queries THEN NoError ELSE ErrLogFailed,
                   seen |-> Len(linktable)]
       /\ UNCHANGED <<linktable, call, upd, subst, now, resp, moved, cfg>>

\* QueryRepository.GetRecentQueries called with any window and limit.
RepositoryGetRecentQueriesCall ==
  \E timeWindowDays \in TimeWindows, numResults \in ResultLimits :
    \/ \E rows \in RepositoryGetRecentQueries(queries, linktable, now, timeWindowDays,
                                               numResults) :
         /\ view' = [op |-> "popular", args |-> <<timeWindowDays, numResults>>,
                     rows |-> rows, err |-> NoError, seen |-> Len(linktable)]
         /\ UNCHANGED <<linktable, queries, call, upd, subst, now, resp, moved, cfg>>
    \/ /\ view' = [op |-> "popular", args |-> <<timeWindowDays, numResults>>,
                   rows |-> <<>>, err |-> ErrRecentFailed, seen |-> Len(linktable)]
       /\ UNCHANGED <<linktable, queries, call, upd, subst, now, resp, moved, cfg>>

\* processResultLink(link, searchTerm) is entered, and returns.
ProcessResultLinkCall ==
  \E link \in SubstLinks, searchTerm \in SubstTerms :
    /\ subst.pc # "called"
    /\ subst' = [pc |-> "called", link |-> link, searchTerm |-> searchTerm, result |-> <<>>]
    /\ UNCHANGED <<linktable, queries, call, upd, view, now, resp, moved, cfg>>

ProcessResultLinkReturn ==
  /\ subst.pc = "called"
  /\ subst' = [subst EXCEPT !.pc = "returned",
                            !.result = processResultLink(subst.link, subst.searchTerm)]
  /\ UNCHANGED <<linktable, queries, call, upd, view, now, resp, moved, cfg>>

\* A caller enters GetLink with one of the queries of the store's clients.
GetLinkLookup == \E word \in StoreQueries : GetLinkCall(word, StrEmpty)

\* The service: updates and lookups, interleaved.
Next == UpdateLinkServed \/ GetLinkRequest \/ GetLinkRun

Spec == Init /\ [][Next]_vars

\* Lookups over a table filled through the repository, keyword references
\* and multi-word keywords included.
NextRepo == RepositoryCreate \/ GetLinkRequest \/ GetLinkRun

SpecRepo == Init /\ [][NextRepo]_vars

\* UpdateLink alone, over every kind of request.
NextUpdate == UpdateLinkRequest

SpecUpdate == Init /\ [][NextUpdate]_vars

\* processResultLink alone.
NextSubst == ProcessResultLinkCall \/ ProcessResultLinkReturn

SpecSubst == Init /\ [][NextSubst]_vars

\* The listing of keywords over a table filled through the repository.
NextList == RepositoryCreateListed \/ GetAllKeywordsCall

SpecList == Init /\ [][NextList]_vars

\* UpdateLink calls made by other requests while a GetLink call runs: the
\* service holds no lock, so they fall between any two lookups of the call.
UpdateLinkRaced ==
  \E reqWord \in RaceWords, reqLink \in RaceLinks, createOK \in CreateOutcomes :
    UpdateLink(reqWord, reqLink, DefaultUser, createOK)

GetLinkRaced == \E word \in RaceQueries : GetLinkCall(word, StrEmpty)

NextRace == UpdateLinkRaced \/ GetLinkRaced \/ GetLinkRun

SpecRace == Init /\ [][NextRace]_vars

\* The four operations of the service over one store.
NextStore ==
  \/ UpdateLinkServed
  \/ GetLinkLookup
  \/ GetLinkRun
  \/ GetAllKeywordsCall
  \/ GetRecentQueriesCall

SpecStore == Init /\ [][NextStore]_vars

\* The environment sets PORT, and config.Load reads it.
Setenv ==
  \E value \in PortValues :
    /\ cfg' = [pc |-> "set", env |-> value, Port |-> 0]
    /\ UNCHANGED <<linktable, queries, call, upd, view, subst, now, resp, moved>>

Load ==
  /\ cfg' = [cfg EXCEPT !.pc = "loaded", !.Port = getEnvAsInt(cfg.env, DefaultPort)]
  /\ UNCHANGED <<linktable, queries, call, upd, view, subst, now, resp, moved>>

NextConfig == Setenv \/ Load

SpecConfig == Init /\ [][NextConfig]_vars

\* moveLastWord(moveFrom, moveTo) is called, and called again on what it
\* returned until it is given a first argument without words.
MoveLastWordCall ==
  \E moveFrom \in MoveFroms, moveTo \in MoveTos :
    /\ moved.pc # "called"
    /\ moved' = [pc |-> "called", from |-> moveFrom, to |-> moveTo,
                 moveFrom |-> moveFrom, moveTo |-> moveTo, applied |-> 0]
    /\ UNCHANGED <<linktable, queries, call, upd, view, subst, now, resp, cfg>>

MoveLastWordApply ==
  /\ moved.pc = "called"
  /\ moved' = [moved EXCEPT !.pc = IF Fields(moved.moveFrom) = <<>> THEN "returned" ELSE "called",
                            !.moveFrom = moveLastWord(moved.moveFrom, moved.moveTo)[1],
                            !.moveTo = moveLastWord(moved.moveFrom, moved.moveTo)[2],
                            !.applied = moved.applied + 1]
  /\ UNCHANGED <<linktable, queries, call, upd, view, subst, now, resp, cfg>>

NextMove == MoveLastWordCall \/ MoveLastWordApply

SpecMove == Init /\ [][NextMove]_vars

\* Lookups over keywords that may refer to each other.  GetLink runs to
\* its end without waiting for anything, so its steps are taken.
RepositoryCreateAliased ==
  \E row \in AliasRows :
    /\ Len(linktable) < MaxRows
    /\ linktable' = ShortcutCreate(linktable, row[1], row[2], DefaultUser)
    /\ UNCHANGED <<queries, call, upd, view, subst, now, resp, moved, cfg>>

GetLinkAliased == \E word \in AliasQueries : GetLinkCall(word, StrEmpty)

NextAlias == RepositoryCreateAliased \/ GetLinkAliased \/ GetLinkRun

SpecAlias == Init /\ [][NextAlias]_vars /\ WF_vars(GetLinkRun)

\* The redirect handler over a table filled through the repository.
NextHandler == RepositoryCreate \/ RedirectRequest \/ GetLinkRun \/ RedirectRespond

SpecHandler == Init /\ [][NextHandler]_vars

\* The query repository and the popularity listing, as days go by.
NextPopular ==
  \/ RepositoryCreatePopular
  \/ QueryRepositoryCreate
  \/ Tick
  \/ RepositoryGetRecentQueriesCall
  \/ GetRecentQueriesCall

SpecPopular == Init /\ [][NextPopular]_vars

(***************************************************************************)
(* Vocabulary of the properties.                                           *)
(***************************************************************************)
\* The table as it was when the current call was entered.
Seen == SubSeq(linktable, 1, call.rows)

\* No row was added since the call was entered.
SameTable == call.rows = Len(linktable)

HasWord(table, word) == \E i \in 1..Len(table) : table[i].word = word

\* i is the row with the greatest identifier among those of its keyword.
IsLive(table, i) ==
  \A j \in 1..Len(table) : table[j].word = table[i].word => table[j].id <= table[i].id

\* The call returned, and not because a lookup failed in the repository.
Returned == call.pc = "done" /\ call.err # ErrGetFailed

\* The word-prefixes of a query: the trimmed query and the space-joined
\* first k words, for every k.
WordPrefixes(q) ==
  {TrimSpace(q)} \cup {Join(SubSeq(Fields(q), 1, k), Space) : k \in 1..Len(Fields(q))}

(***************************************************************************)
(* C1.  For every live mapping whose target starts with http:// or         *)
(* https:// and holds no {*}, GetLink(keyword, "") returns exactly that    *)
(* target.  Stated over the table the call saw; it is violated: UpdateLink *)
(* stores the keyword as given while GetLink trims its argument.           *)
(***************************************************************************)
C1_ResolveReturnsTargetUnchanged ==
  \A i \in 1..call.rows :
    (/\ Returned
     /\ SameTable
     /\ call.term = <<>>
     /\ call.query = linktable[i].word
     /\ IsLive(Seen, i)
     /\ isURL(linktable[i].link)
     /\ ~Contains(linktable[i].link, Wildcard))
    => (call.err = NoError /\ call.result = linktable[i].link)

(***************************************************************************)
(* C2.  For a query of two or more words whose full text is no keyword and *)
(* whose first word is a live keyword mapped to a URL holding {*},         *)
(* GetLink returns that URL with {*} replaced by the escaped remaining     *)
(* words, space-joined in order.  It is violated: a query whose words are  *)
(* separated by a tab is never split.                                       *)
(***************************************************************************)
C2_FirstWordSubstitution ==
  \A i \in 1..call.rows :
    (/\ Returned
     /\ SameTable
     /\ call.term = <<>>
     /\ Len(Fields(call.query)) >= 2
     /\ ~HasWord(Seen, TrimSpace(call.query))
     /\ linktable[i].word = Fields(call.query)[1]
     /\ IsLive(Seen, i)
     /\ isURL(linktable[i].link)
     /\ Contains(linktable[i].link, Wildcard))
    => (/\ call.err = NoError
        /\ call.result =
             ReplaceAll(linktable[i].link, Wildcard,
                        QueryEscape(Join(Tail(Fields(call.query)), Space))))

(***************************************************************************)
(* C3.  An invocation that finds a mapping whose link is no URL goes on    *)
(* with GetLink(link, searchTerm): the link is the new word and the search *)
(* term is kept; and a call that returns a destination after one or more   *)
(* keyword references returns the substituted link of the last mapping it  *)
(* found, a URL, every mapping before it being a keyword reference.         *)
(***************************************************************************)
C3_Step ==
  \A i \in 1..Len(linktable) :
    (/\ call.pc = "running"
     /\ call' # call
     /\ call'.err # ErrGetFailed
     /\ linktable[i].word = TrimSpace(call.word)
     /\ IsLive(linktable, i)
     /\ ~isURL(linktable[i].link))
    => (/\ call'.pc = "running"
        /\ call'.word = linktable[i].link
        /\ call'.searchTerm = call.searchTerm)

C3_Return ==
  (/\ call'.pc = "done"
   /\ call'.err = NoError
   /\ call'.hits # <<>>
   /\ call'.lookups < MaxLookups)
  => LET n == Len(call'.hits)
     IN /\ isURL(linktable[call'.hits[n]].link)
        /\ \A k \in 1..(n - 1) : ~isURL(linktable[call'.hits[k]].link)
        /\ call'.result = processResultLink(linktable[call'.hits[n]].link, call'.searchTerm)
        /\ call.pc = "running" => call'.searchTerm = call.searchTerm

C3_KeywordReferenceFollowed == [][C3_Step /\ C3_Return]_vars

\* d -> a and a -> https://x/{*}: GetLink("d g") has returned https://x/g.
C3_Witness ==
  /\ call.pc = "done"
  /\ call.query = QueryDG
  /\ call.hits = <<1, 2>>
  /\ Len(linktable) = 2
  /\ linktable[1].word = StrD /\ linktable[1].link = StrA
  /\ linktable[2].word = StrA /\ linktable[2].link = UrlWild
  /\ call.result = SchemeHttps \o <<"x", "/", "g">>

(***************************************************************************)
(* C4.  GetLink fails with InvalidQueryError and no destination for every  *)
(* query none of whose word-prefixes is a keyword of the table; and no     *)
(* table built by UpdateLink holds an empty keyword, so GetLink("") fails  *)
(* that way in all of them.                                                 *)
(***************************************************************************)
C4_UnknownQueryNotFound ==
  /\ \A i \in 1..Len(linktable) : linktable[i].word # <<>>
  /\ (Returned /\ \A p \in WordPrefixes(call.query) : ~HasWord(linktable, p))
       => (call.err = InvalidQueryError /\ call.result = <<>>)
  /\ (Returned /\ TrimSpace(call.query) = <<>>)
       => (call.err = InvalidQueryError /\ call.result = <<>>)

\* GetLink("") has failed over a table that holds a mapping.
C4_Witness ==
  /\ call.pc = "done"
  /\ call.query = <<>>
  /\ call.rows >= 1
  /\ call.err = InvalidQueryError

(***************************************************************************)
(* C5.  UpdateLink reports the first rule broken, in the order: (1) word   *)
(* empty after trim, (2) word ends with "/", (3) link empty after trim,    *)
(* (4) link equals word, (5) link does not start with http:// or          *)
(* https://; each rule has a reason of its own.  Rules (1) to (4) are read *)
(* on the trimmed word and link, rule (5) on the link as given.            *)
(***************************************************************************)
StartsWith(s, p) == Len(s) >= Len(p) /\ \A k \in 1..Len(p) : s[k] = p[k]

RulesBroken(word, link) ==
  {r \in 1..5 :
     \/ r = 1 /\ TrimSpace(word) = <<>>
     \/ r = 2 /\ TrimSpace(word) # <<>> /\ TrimSpace(word)[Len(TrimSpace(word))] = "/"
     \/ r = 3 /\ TrimSpace(link) = <<>>
     \/ r = 4 /\ TrimSpace(link) = TrimSpace(word)
     \/ r = 5 /\ ~StartsWith(link, SchemeHttp) /\ ~StartsWith(link, SchemeHttps)}

RuleReason == <<MsgNoWord, MsgTrailingSlash, MsgNoLink, MsgSelfReference, MsgNotURL>>

C5_FirstBrokenRuleReported ==
  /\ Cardinality({RuleReason[r] : r \in 1..5}) = 5
  /\ upd # IdleUpdate =>
       LET broken == RulesBroken(upd.word, upd.link)
       IN IF broken = {}
          THEN upd.err \in {NoError, ErrCreateFailed}
          ELSE \E r \in broken :
                 /\ \A q \in broken : r <= q
                 /\ upd.err = RuleReason[r]
                 /\ ~upd.stored

\* "a/" with an empty link breaks rules (2), (3) and (5): reason (2).
C5_Witness ==
  /\ upd.word = StrASlash
  /\ upd.link = <<>>
  /\ RulesBroken(upd.word, upd.link) = {2, 3, 5}
  /\ upd.err = MsgTrailingSlash

(***************************************************************************)
(* C6.  In every table built by UpdateLink from the empty one, every       *)
(* link starts with http:// or https://.                                    *)
(***************************************************************************)
C6_OnlyURLsStored ==
  \A i \in 1..Len(linktable) :
    \/ StartsWith(linktable[i].link, SchemeHttp)
    \/ StartsWith(linktable[i].link, SchemeHttps)

\* A keyword reference was refused while the table holds a mapping.
C6_Witness ==
  /\ Len(linktable) >= 1
  /\ upd.word = StrAB
  /\ upd.link = StrA
  /\ upd.err = MsgNotURL

(***************************************************************************)
(* C7.  A lookup that finds a mapping finds the one with the greatest      *)
(* identifier among the rows of exactly the word looked up; the rows       *)
(* created before stay in the table.                                        *)
(***************************************************************************)
C7_Step ==
  (call.pc = "running" /\ call'.hits # call.hits)
  => LET id == call'.hits[Len(call'.hits)]
     IN /\ id \in 1..Len(linktable)
        /\ linktable[id].word = TrimSpace(call.word)
        /\ \A j \in 1..Len(linktable) :
             linktable[j].word = TrimSpace(call.word) => linktable[j].id <= id

C7_NewestMappingFound ==
  [][C7_Step /\ SubSeq(linktable', 1, Len(linktable)) = linktable]_vars

\* Two mappings of "a"; GetLink("a") made after both found the second.
C7_Witness ==
  /\ Len(linktable) = 2
  /\ linktable[1].word = StrA /\ linktable[1].link = UrlX
  /\ linktable[2].word = StrA /\ linktable[2].link = UrlWild
  /\ call.pc = "done"
  /\ call.query = StrA
  /\ call.rows = 2
  /\ call.hits = <<2>>
  /\ call.result = SchemeHttps \o <<"x", "/">>

(***************************************************************************)
(* C8.  The table is append-only: a step leaves it as it is or appends     *)
(* one row, and a row is appended exactly by an UpdateLink that returns    *)
(* nil, the row carrying the next identifier and the word, link and user   *)
(* of that request; GetLink, GetAllKeywords and GetRecentQueries never      *)
(* touch the table.                                                         *)
(***************************************************************************)
C8_Step ==
  /\ \/ linktable' = linktable
     \/ /\ linktable' = Append(linktable, [id |-> Len(linktable) + 1, word |-> upd'.word,
                                           link |-> upd'.link, user |-> upd'.user])
        /\ upd'.err = NoError
        /\ call' = call /\ queries' = queries /\ view' = view
  /\ (call' = call /\ queries' = queries /\ view' = view /\ upd'.err = NoError)
       => Len(linktable') = Len(linktable) + 1
  /\ (call' # call \/ view' # view) => linktable' = linktable

C8_AppendOnly == [][C8_Step]_vars

\* A second mapping of "a" was created and the first is still there after
\* a lookup and a listing that show the second only.
C8_Witness ==
  /\ Len(linktable) = 2
  /\ linktable[1] = [id |-> 1, word |-> StrA, link |-> UrlWild, user |-> DefaultUser]
  /\ linktable[2] = [id |-> 2, word |-> StrA, link |-> UrlX, user |-> DefaultUser]
  /\ upd.err = NoError /\ upd.word = StrA /\ upd.link = UrlX
  /\ call.pc = "done" /\ call.rows = 2 /\ call.result = UrlX
  /\ view.op = "keywords" /\ view.rows = <<[word |-> StrA, link |-> UrlX]>>

(***************************************************************************)
(* C9.  A GetLink(word) made after UpdateLink(word, link, user) returned   *)
(* nil finds the newest mapping created for that word.  It is violated:    *)
(* UpdateLink validates the trimmed word and stores the word as given,     *)
(* which GetLink, trimming its argument, never looks up.                   *)
(***************************************************************************)
C9_LookupObservesCreate ==
  \A i \in 1..call.rows :
    (/\ Returned
     /\ call.query = linktable[i].word
     /\ IsLive(Seen, i))
    => (call.err = NoError /\ call.hits # <<>> /\ call.hits[1] = i)

(***************************************************************************)
(* C10.  What an invocation of GetLink does next, and what the call        *)
(* returns, is the same whether queryRepo.Create succeeds or fails, and    *)
(* the error of queryRepo.Create is never the error of the call.           *)
(***************************************************************************)
Outcome(c) == <<c.pc, c.word, c.searchTerm, c.result, c.err, c.msg>>

C10_LogFailureSwallowed ==
  /\ call.err \in {NoError, InvalidQueryError, ErrGetFailed}
  /\ call.pc = "running" =>
       \A lookupOK \in BOOLEAN :
         Outcome(GetLinkInvocation(call, linktable, lookupOK, TRUE))
           = Outcome(GetLinkInvocation(call, linktable, lookupOK, FALSE))
  /\ (call.pc = "done" /\ call.logFailed /\ call.err = NoError /\ SameTable /\ call.hits # <<>>)
       => call.result = processResultLink(linktable[call.hits[Len(call.hits)]].link,
                                          call.searchTerm)

\* A call through a keyword reference returned its destination although a
\* record attempt failed.
C10_Witness ==
  /\ call.pc = "done"
  /\ call.logFailed
  /\ Len(call.hits) = 2
  /\ Len(queries) < Len(call.hits)
  /\ call.err = NoError
  /\ call.result = UrlX

(***************************************************************************)
(* C11.  An invocation of GetLink whose lookup returns a mapping makes     *)
(* exactly one record attempt, for that mapping's identifier, whether the  *)
(* mapping is a keyword reference or a URL; an invocation whose lookup     *)
(* returns nothing, or fails, makes none and leaves the log as it is.  So  *)
(* the attempts of a call are as many as its lookups that found a mapping. *)
(***************************************************************************)
\* The mapping with the greatest identifier among those of the word, or
\* none: what a lookup of the word returns from the table.
Found(table, word) ==
  {i \in 1..Len(table) :
     /\ table[i].word = word
     /\ \A j \in 1..Len(table) : table[j].word = word => j <= i}

C11_Step ==
  (call.pc = "running" /\ call' # call /\ Len(call.hits) < MaxLookups)
  => LET found == Found(linktable, TrimSpace(call.word))
     IN IF found # {} /\ call'.err # ErrGetFailed
        THEN /\ \E i \in found : call'.hits = Append(call.hits, linktable[i].id)
             /\ \/ queries' = queries
                \/ \E i \in found :
                     queries' = Append(queries, [query_id |-> Len(queries) + 1,
                                                 word_id |-> linktable[i].id,
                                                 created_at |-> now])
        ELSE call'.hits = call.hits /\ queries' = queries

C11_OneAttemptPerHit == [][C11_Step]_vars

\* GetLink("d g"): the lookup of "d g" found nothing, those of "d" and of
\* "a" found rows 1 and 2, and two attempts were made.
C11_Witness ==
  /\ call.pc = "done"
  /\ call.query = QueryDG
  /\ call.err = NoError
  /\ call.lookups = 3
  /\ call.hits = <<1, 2>>
  /\ SameTable

(***************************************************************************)
(* C12 as stated.  A call that returns a destination adds exactly one      *)
(* record, for the mapping whose URL it returns: an invocation that        *)
(* follows a keyword reference adds none, and the one that returns adds    *)
(* one.  It is violated: every mapping found is recorded, and a record     *)
(* call may fail.                                                           *)
(***************************************************************************)
C12_StepAsStated ==
  (call.pc = "running" /\ call' # call /\ call'.err = NoError /\ call'.hits # call.hits)
  => LET id == call'.hits[Len(call'.hits)]
     IN IF call'.pc = "done"
        THEN queries' = Append(queries, [query_id |-> Len(queries) + 1, word_id |-> id,
                                         created_at |-> now])
        ELSE queries' = queries

C12_OneRecordPerResolution == [][C12_StepAsStated]_vars

(***************************************************************************)
(* C12 amended.  A call adds one record for every mapping it finds whose   *)
(* record call succeeds, keyword references included, in the order found;  *)
(* while no record call of the call has failed the records are as many as  *)
(* the mappings found, and the last mapping found by a call that returns a *)
(* destination is the one whose URL it returns.                             *)
(***************************************************************************)
C12_Step ==
  (call.pc = "running" /\ call' # call)
  => /\ \/ queries' = queries
        \/ /\ call'.hits # call.hits
           /\ queries' = Append(queries, [query_id |-> Len(queries) + 1,
                                          word_id |-> call'.hits[Len(call'.hits)],
                                          created_at |-> now])
     /\ (call'.hits # call.hits /\ ~call'.logFailed) => queries' # queries
     /\ (call'.pc = "done" /\ call'.err = NoError)
          => /\ call'.hits # call.hits
             /\ isURL(linktable[call'.hits[Len(call'.hits)]].link)
             /\ \A k \in 1..Len(call.hits) : ~isURL(linktable[call.hits[k]].link)

C12_OneRecordPerMappingFound == [][C12_Step]_vars

\* GetLink("d") over d -> a, a -> http://x returned http://x and left two
\* records, of row 1 and of row 2.
C12_Witness ==
  /\ call.pc = "done"
  /\ call.query = StrD
  /\ call.err = NoError
  /\ call.result = UrlX
  /\ call.hits = <<1, 2>>
  /\ ~call.logFailed
  /\ queries = <<[query_id |-> 1, word_id |-> 1, created_at |-> 0],
               [query_id |-> 2, word_id |-> 2, created_at |-> 0]>>

(***************************************************************************)
(* C13.  A lookup that finds nothing for a head of two or more words is    *)
(* followed by a lookup of the head without its last word, so that no head *)
(* is looked up twice; and a call that follows no keyword reference makes  *)
(* at most as many lookups as its query has words.  It is violated: a head *)
(* whose words are separated by a tab is given up, not shortened.          *)
(***************************************************************************)
C13_Step ==
  (/\ call.pc = "running"
   /\ call' # call
   /\ call'.err # ErrGetFailed
   /\ Found(linktable, TrimSpace(call.word)) = {}
   /\ Len(Fields(call.word)) >= 2)
  => /\ call'.pc = "running"
     /\ Fields(call'.word) = SubSeq(Fields(call.word), 1, Len(Fields(call.word)) - 1)
     /\ Len(Fields(call'.word)) < Len(Fields(call.word))

C13_Lookups ==
  (/\ call.pc # "idle"
   /\ Len(Fields(call.query)) >= 1
   /\ \A k \in 1..Len(call.hits) : isURL(linktable[call.hits[k]].link))
  => call.lookups <= Len(Fields(call.query))

C13_SplitShrinksByOneWord == [][C13_Step /\ C13_Lookups]_vars

(***************************************************************************)
(* C14.  processResultLink returns the link with every {*} replaced by one *)
(* and the same encoded search term: the pieces of the link between its    *)
(* tokens, joined by the encoded term; an empty search term joins them by  *)
(* the empty string; and the result holds no {*}.  The last part is        *)
(* violated: taking the token out of "{{*}*}" leaves a token.              *)
(***************************************************************************)
\* The pieces of s between the occurrences of sep, found left to right.
RECURSIVE PiecesAcc(_, _, _)
PiecesAcc(s, sep, cur) ==
  IF s = <<>> THEN <<cur>>
  ELSE IF StartsWith(s, sep)
       THEN <<cur>> \o PiecesAcc(SubSeq(s, Len(sep) + 1, Len(s)), sep, <<>>)
       ELSE PiecesAcc(Tail(s), sep, Append(cur, Head(s)))

Pieces(s, sep) == PiecesAcc(s, sep, <<>>)

HasToken(s) ==
  \E k \in 1..Len(s) : k + 2 <= Len(s) /\ s[k] = "{" /\ s[k + 1] = "*" /\ s[k + 2] = "}"

C14_EveryTokenReplaced ==
  subst.pc = "returned" =>
    LET term == TrimSpace(Join(Pieces(subst.searchTerm, Wildcard), <<>>))
    IN /\ subst.result = TrimSpace(Join(Pieces(subst.link, Wildcard), QueryEscape(term)))
       /\ subst.searchTerm = <<>> =>
            subst.result = TrimSpace(Join(Pieces(subst.link, Wildcard), <<>>))
       /\ ~HasToken(subst.result)

(***************************************************************************)
(* C15.  GetAllKeywords lists a keyword exactly if the link of its newest  *)
(* mapping starts with http:// or https://: a keyword whose newest mapping *)
(* is a keyword reference is not listed at all, whatever its older         *)
(* mappings are, and every other keyword of the table is.                   *)
(***************************************************************************)
Listed == view.op = "keywords" /\ view.err = NoError /\ view.seen = Len(linktable)

ListedWords == {view.rows[k].word : k \in 1..Len(view.rows)}

C15_OnlyLiveURLsListed ==
  Listed =>
    /\ \A i \in 1..Len(linktable) :
         IsLive(linktable, i) =>
           (linktable[i].word \in ListedWords
              <=> (\/ StartsWith(linktable[i].link, SchemeHttp)
                   \/ StartsWith(linktable[i].link, SchemeHttps)))
    /\ \A w \in ListedWords : HasWord(linktable, w)

\* "d" was mapped to a URL and then to a keyword reference: the listing of
\* the two rows is empty.
C15_Witness ==
  /\ Listed
  /\ Len(linktable) = 2
  /\ linktable[1].word = StrD /\ linktable[1].link = UrlX
  /\ linktable[2].word = StrD /\ linktable[2].link = StrA
  /\ view.rows = <<>>

(***************************************************************************)
(* C16.  The listing has at most one row for a keyword, the row carries    *)
(* the link of the keyword's newest mapping, and the rows come in strictly *)
(* descending order of the identifiers of those newest mappings.           *)
(***************************************************************************)
\* The identifier of the newest mapping of the word (0 when it has none).
NewestId(table, word) ==
  IF HasWord(table, word)
  THEN CHOOSE i \in 1..Len(table) :
         table[i].word = word /\ \A j \in 1..Len(table) : table[j].word = word => j <= i
  ELSE 0

C16_OneRowPerKeywordNewestFirst ==
  Listed =>
    /\ \A p, q \in 1..Len(view.rows) : view.rows[p].word = view.rows[q].word => p = q
    /\ \A p \in 1..Len(view.rows) :
         /\ NewestId(linktable, view.rows[p].word) # 0
         /\ view.rows[p].link = linktable[NewestId(linktable, view.rows[p].word)].link
    /\ \A p, q \in 1..Len(view.rows) :
         p < q => NewestId(linktable, view.rows[p].word) > NewestId(linktable, view.rows[q].word)

\* Two keywords: the one mapped last is listed first.
C16_Witness ==
  /\ Listed
  /\ Len(linktable) = 2
  /\ linktable[1].word = StrA /\ linktable[1].link = UrlWild
  /\ linktable[2].word = StrD /\ linktable[2].link = UrlX
  /\ view.rows = <<[word |-> StrD, link |-> UrlX], [word |-> StrA, link |-> UrlWild]>>

(***************************************************************************)
(* C17.  The message of an InvalidQueryError returned by GetLink names the *)
(* query of the call: its words are the words of the word and of the       *)
(* search term the caller passed, in that order.  It is violated: after a  *)
(* keyword reference the message names the link followed, not the query.   *)
(***************************************************************************)
C17_ErrorCarriesQuery ==
  (call.pc = "done" /\ call.err = InvalidQueryError)
  => Fields(call.msg) = Fields(call.query) \o Fields(call.term)

(***************************************************************************)
(* C18.  An UpdateLink that returns one of the five validation errors      *)
(* leaves the table and the log as they are: no row is created, no lookup  *)
(* is made and nothing is recorded.                                         *)
(***************************************************************************)
ValidationErrors == {MsgNoWord, MsgTrailingSlash, MsgNoLink, MsgSelfReference, MsgNotURL}

C18_Step ==
  (upd'.err \in ValidationErrors /\ call' = call /\ view' = view /\ subst' = subst)
  => /\ linktable' = linktable
     /\ queries' = queries
     /\ ~upd'.stored

C18_RejectedRequestChangesNothing == [][C18_Step]_vars

\* A self-reference was refused and the mapping stored before is the table.
C18_Witness ==
  /\ Len(linktable) = 1
  /\ linktable[1].word = StrA
  /\ upd.word = StrA
  /\ upd.link = StrA
  /\ upd.err = MsgSelfReference
  /\ ~upd.stored

(***************************************************************************)
(* C19.  Every mapping stored by UpdateLink has a keyword that is not      *)
(* empty and does not end with "/", and a link different from its keyword, *)
(* as the fields are stored and after trimming.                             *)
(***************************************************************************)
C19_StoredMappingsWellFormed ==
  \A i \in 1..Len(linktable) :
    LET word == linktable[i].word
        link == linktable[i].link
    IN /\ word # <<>> /\ TrimSpace(word) # <<>>
       /\ word[Len(word)] # "/"
       /\ TrimSpace(word)[Len(TrimSpace(word))] # "/"
       /\ link # word /\ TrimSpace(link) # TrimSpace(word)

\* Two mappings are stored, and a request mapping a URL to itself was
\* refused after a keyword with a trailing slash was.
C19_Witness ==
  /\ Len(linktable) = 2
  /\ linktable[1].word = StrSpaceA
  /\ linktable[2].word = UrlX /\ linktable[2].link = UrlWild
  /\ upd.word = UrlX /\ upd.link = UrlX
  /\ upd.err = MsgSelfReference

(***************************************************************************)
(* C20.  A GetLink call that UpdateLink calls overlap returns what GetLink *)
(* returns on the table as it was at one instant between the entry of the  *)
(* call and its return.  It is violated: the lookups of one call read the  *)
(* table at different instants, and two rows added between them can give   *)
(* a result that no single table gives.                                     *)
(***************************************************************************)
\* GetLink run to its return on one table, no repository call failing.
RECURSIVE RunGetLink(_, _, _)
RunGetLink(c, table, fuel) ==
  IF c.pc = "done" \/ fuel = 0 THEN c
  ELSE RunGetLink(GetLinkInvocation(c, table, TRUE, TRUE), table, fuel - 1)

GetLinkOn(table, word, searchTerm) ==
  RunGetLink([IdleCall EXCEPT !.pc = "running", !.query = word, !.term = searchTerm,
                              !.word = word, !.searchTerm = searchTerm],
             table, MaxLookups)

C20_Step ==
  (call.pc = "running" /\ call'.pc = "done" /\ call'.err # ErrGetFailed)
  => \E k \in call.rows..Len(linktable) :
       LET at == GetLinkOn(SubSeq(linktable, 1, k), call.query, call.term)
       IN /\ at.pc = "done"
          /\ at.result = call'.result
          /\ at.err = call'.err

C20_ResultOfOneInstant == [][C20_Step]_vars

(***************************************************************************)
(* C21.  GetRecentQueries(timeWindowDays, numResults) returns at most      *)
(* numResults rows, one for each mapping that has a record younger than    *)
(* timeWindowDays days, with the number of such records as its count, the  *)
(* greater counts first and the greatest counts kept when the limit cuts;  *)
(* a record as old as the window or older is not counted, so a window of   *)
(* 0 days returns nothing.  The service asks for 3 days and 20 rows.       *)
(***************************************************************************)
\* The records of the mapping that are younger than the window.
Counted(id, days) ==
  {k \in 1..Len(queries) : queries[k].word_id = id /\ now - queries[k].created_at < days}

Least(a, b) == IF a < b THEN a ELSE b

C21_Step ==
  (view' # view /\ view'.op \in {"popular", "recent"} /\ view'.err = NoError)
  => LET days == view'.args[1]
         limit == view'.args[2]
         rows == view'.rows
         active == {id \in 1..Len(linktable) : Counted(id, days) # {}}
     IN /\ view'.op = "recent" => (days = 3 /\ limit = 20)
        /\ Len(rows) = Least(limit, Cardinality(active))
        /\ \A p \in 1..(Len(rows) - 1) : rows[p].count >= rows[p + 1].count
        /\ \A p \in 1..Len(rows) :
             \E id \in active :
               rows[p] = [count |-> Cardinality(Counted(id, days)),
                          word |-> linktable[id].word, link |-> linktable[id].link]
        /\ \A c \in 0..Len(queries) :
             Cardinality({p \in 1..Len(rows) : rows[p].count > c})
               = Least(Len(rows),
                       Cardinality({id \in active : Cardinality(Counted(id, days)) > c}))
        /\ days = 0 => rows = <<>>

C21_PopularWithinWindow == [][C21_Step]_vars

\* On day 1, with a record of "a" from day 0 and two of "d" from day 1, the
\* window of one day lists "d" alone, counted twice.
C21_Witness ==
  /\ now = 1
  /\ Len(linktable) = 2 /\ linktable[1].word = StrA /\ linktable[2].word = StrD
  /\ Len(queries) = 3
  /\ queries[1].word_id = 1 /\ queries[1].created_at = 0
  /\ queries[2].word_id = 2 /\ queries[2].created_at = 1
  /\ queries[3].word_id = 2 /\ queries[3].created_at = 1
  /\ view.op = "popular" /\ view.args = <<1, 20>> /\ view.err = NoError
  /\ view.rows = <<[count |-> 2, word |-> StrD, link |-> UrlWild]>>

(***************************************************************************)
(* C22.  Every record of the log names the identifier of a row of the      *)
(* table, after every step; QueryRepository.Create called with an          *)
(* identifier that has no row returns an error and leaves the log as it    *)
(* was.                                                                     *)
(***************************************************************************)
C22_Step ==
  /\ \A k \in 1..Len(queries') :
       \E i \in 1..Len(linktable') : linktable'[i].id = queries'[k].word_id
  /\ (/\ view'.op = "record"
      /\ (view' # view \/ queries' # queries)
      /\ \A i \in 1..Len(linktable) : linktable[i].id # view'.args[1])
     => (queries' = queries /\ view'.err # NoError)

C22_RecordsReferenceMappings == [][C22_Step]_vars

\* A record of row 1 is in the log, and a record for identifier 999 was
\* refused.
C22_Witness ==
  /\ Len(linktable) = 1
  /\ Len(queries) = 1 /\ queries[1].word_id = 1
  /\ view.op = "record" /\ view.args = <<999>> /\ view.err = ErrLogFailed

(***************************************************************************)
(* C23.  The redirect handler resolves the requested path with one         *)
(* trailing "/" dropped, and an empty search term.  A destination is       *)
(* answered with 302 to it, QueryNotFound with 302 to                      *)
(* <BaseURL>/homepage/?missing=<the path resolved>, any other error with   *)
(* 500.                                                                     *)
(***************************************************************************)
\* The path without its last character when that is a slash.
Resolved(path) ==
  IF path # <<>> /\ path[Len(path)] = "/" THEN SubSeq(path, 1, Len(path) - 1) ELSE path

MissingLocation(path) ==
  BaseURL
    \o <<"/", "h", "o", "m", "e", "p", "a", "g", "e", "/",
         "?", "m", "i", "s", "s", "i", "n", "g", "=">>
    \o Resolved(path)

C23_RedirectByOutcome ==
  resp.pc = "responded"
  => /\ call.query = Resolved(resp.path) /\ call.term = <<>>
     /\ call.pc = "done"
     /\ IF call.err = NoError
        THEN resp.status = 302 /\ resp.location = call.result
        ELSE IF call.err = InvalidQueryError
        THEN resp.status = 302 /\ resp.location = MissingLocation(resp.path)
        ELSE resp.status = 500

\* "d/" over d -> a: "d" was resolved, nothing was found for "a", and the
\* answer is 302 to the homepage with missing=d.
C23_Witness ==
  /\ resp.pc = "responded"
  /\ resp.path = StrDSlash
  /\ call.hits = <<1>>
  /\ call.err = InvalidQueryError
  /\ resp.status = 302
  /\ resp.location = BaseURL \o HomepageMissing \o StrD

(***************************************************************************)
(* C24.  GetLink has no depth limit and no cycle guard.  A call either     *)
(* returns or comes to a keyword it has found before; and a call that      *)
(* found a keyword which the table, unchanged since the call began, maps   *)
(* to a second keyword that it maps back to the first has not returned a   *)
(* destination or QueryNotFound, whatever the number of its lookups.       *)
(***************************************************************************)
\* The call has found the same keyword twice.
Revisited ==
  \E p, q \in 1..Len(call.hits) :
    p < q /\ linktable[call.hits[p]].word = linktable[call.hits[q]].word

\* The link of the newest row of the word, or none.
LiveLink(word) ==
  {TrimSpace(linktable[i].link) : i \in {j \in 1..Len(linktable) :
     /\ linktable[j].word = word
     /\ \A k \in (j + 1)..Len(linktable) : linktable[k].word # word}}

MutualAlias(word) ==
  \E other \in LiveLink(word) : other # word /\ word \in LiveLink(other)

C24_CycleNeverReturns ==
  (call.pc = "done" /\ call.err \in {NoError, InvalidQueryError} /\ SameTable)
  => \A k \in 1..Len(call.hits) : ~MutualAlias(linktable[call.hits[k]].word)

C24_NoCycleGuard ==
  /\ []C24_CycleNeverReturns
  /\ (call.pc = "running") ~> (call.pc = "done" \/ Revisited)

\* GetLink("a") over a -> d, d -> a is in its fifth lookup or a later one.
C24_Witness ==
  /\ call.pc = "running"
  /\ call.query = StrA
  /\ MutualAlias(StrA)
  /\ SameTable
  /\ Len(call.hits) >= 4
  /\ Revisited

(***************************************************************************)
(* C25.  A head that is not a keyword and has white space of any kind      *)
(* between its words is split, so a call ends in QueryNotFound only on a   *)
(* head of one word or none.  It is violated: a head whose words are       *)
(* separated by a tab is given up.                                          *)
(***************************************************************************)
C25_AnyWhitespaceSplits ==
  (call.pc = "done" /\ call.err = InvalidQueryError) => Len(Fields(call.word)) <= 1

(***************************************************************************)
(* C26.  Every application of moveLastWord to a first argument that has    *)
(* words takes its last word away and puts it in front of the words of     *)
(* the second, so the words of the first followed by those of the second   *)
(* stay the words the first call was given, in their order; applied to a   *)
(* first argument without words it returns both arguments as they are.     *)
(***************************************************************************)
C26_Step ==
  (moved.pc = "called" /\ moved' # moved)
  => LET words == Fields(moved.moveFrom)
         n == Len(words)
     IN /\ IF n = 0
           THEN moved'.moveFrom = moved.moveFrom /\ moved'.moveTo = moved.moveTo
           ELSE /\ Fields(moved'.moveFrom) = SubSeq(words, 1, n - 1)
                /\ Fields(moved'.moveTo) = <<words[n]>> \o Fields(moved.moveTo)
        /\ Fields(moved'.moveFrom) \o Fields(moved'.moveTo)
             = Fields(moved'.from) \o Fields(moved'.to)

LivePrefixes == {p \in WordPrefixes(call.query) : HasWord(linktable, p)}

C27_Step ==
  (call.pc = "running" /\ call' # call /\ SameTable)
  => /\ (call.hits = <<>> /\ call'.hits # <<>>)
          => LET word == linktable[call'.hits[1]].word
                 words == Fields(call.query)
             IN /\ word \in LivePrefixes
                /\ \A p \in LivePrefixes : Len(Fields(p)) <= Len(Fields(word))
                /\ Fields(call'.searchTerm)
                     = SubSeq(words, Len(Fields(word)) + 1, Len(words)) \o Fields(call.term)
     /\ (call'.pc = "done" /\ call'.err = InvalidQueryError /\ call'.hits = <<>>)
          => LivePrefixes = {}

C27_LongestPrefixFirst == [][C27_Step]_vars

(***************************************************************************)
(* C28 as stated.  A call that ends in QueryNotFound leaves the log as it  *)
(* was when the call began.  It is violated: a call that followed a        *)
(* keyword reference before it failed has recorded the mapping it found.   *)
(***************************************************************************)
C28_NotFoundRecordsNothing ==
  (call.pc = "done" /\ call.err = InvalidQueryError) => Len(queries) = call.records

(***************************************************************************)
(* C28 amended.  A call that ends in QueryNotFound without having found a  *)
(* mapping leaves the log as it was when the call began; one that found    *)
(* mappings before it failed found keyword references only, and has added  *)
(* a record for each of them whose record call succeeded: as many records  *)
(* as mappings found while no record call failed, and never more.          *)
(***************************************************************************)
C28_NotFoundRecordsOnlyHits ==
  (call.pc = "done" /\ call.err = InvalidQueryError)
  => /\ call.hits = <<>> => Len(queries) = call.records
     /\ Len(queries) - call.records <= Len(call.hits)
     /\ ~call.logFailed
          => /\ Len(queries) - call.records = Len(call.hits)
             /\ \A k \in 1..Len(call.hits) :
                  queries[call.records + k].word_id = call.hits[k]
     /\ \A k \in 1..Len(call.hits) : ~isURL(linktable[call.hits[k]].link)

\* GetLink("d") over d -> a alone: row 1 was found and recorded, then "a"
\* was not found.
C28_Witness ==
  /\ call.pc = "done"
  /\ call.query = StrD
  /\ call.err = InvalidQueryError
  /\ call.hits = <<1>>
  /\ ~call.logFailed
  /\ Len(queries) = call.records + 1

(***************************************************************************)
(* C29.  Whatever a running call is about to look up (its query, a         *)
(* shortened head, or the link of a keyword reference), a lookup that      *)
(* fails ends the call at once with the repository's error, which is not   *)
(* QueryNotFound, and without a destination: there is no second lookup,    *)
(* no split, no record.                                                     *)
(***************************************************************************)
C29_FailureEnds ==
  call.pc = "running"
  => \A logOK \in BOOLEAN :
       LET c == GetLinkInvocation(call, linktable, FALSE, logOK)
       IN /\ c.pc = "done"
          /\ c.err \notin {NoError, InvalidQueryError}
          /\ c.result = <<>>
          /\ c.hits = call.hits
          /\ c.searchTerm = call.searchTerm
          /\ c.lookups <= call.lookups + 1
          /\ GetLinkHit(call, linktable, FALSE) = NoRow

C29_Step ==
  /\ C29_FailureEnds
  /\ (call.pc = "running" /\ call'.err = ErrGetFailed)
       => /\ call'.pc = "done"
          /\ call'.result = <<>>
          /\ call'.hits = call.hits
          /\ call'.searchTerm = call.searchTerm
          /\ queries' = queries

C29_LookupFailureStops == [][C29_Step]_vars

\* GetLink("d") over d -> a: the lookup of "a", the second, failed.
C29_Witness ==
  /\ call.pc = "done"
  /\ call.query = StrD
  /\ call.err = ErrGetFailed
  /\ call.hits = <<1>>
  /\ call.lookups = 2
  /\ call.result = <<>>

(***************************************************************************)
(* C30.  The port of the configuration that Load returns lies in 1..65535  *)
(* whatever the value of PORT.  It is violated: a value that parses as a   *)
(* number is returned as it is, in the range or not.                        *)
(***************************************************************************)
C30_PortAlwaysValid ==
  cfg.pc = "loaded" => (cfg.Port >= 1 /\ cfg.Port <= 65535)

====
